---- MODULE Spec2Model ----
(***************************************************************************)
(* Model of the trace-convertor crate (src/trace-convertor/src/lib.rs):    *)
(* TraceConverter::convert, TraceConverter::trace_stats and the            *)
(* MidenProcessorAir descriptor.                                           *)
(*                                                                         *)
(* A Miden ExecutionTrace is column-major: a record with its length, its   *)
(* main-trace width and one sequence of Felt per column.  The Plonky3      *)
(* RowMajorMatrix is a flat row-major sequence of elements of the target   *)
(* field F together with its width.  Sequences are 1-based here, so the    *)
(* source's columns[col_idx][row_idx] is columns[col_idx + 1][row_idx + 1] *)
(* and the flat index r * width + c is position r * width + c + 1.         *)
(*                                                                         *)
(* Field elements are identified with their canonical unsigned integer.    *)
(* TLC's integers are 32 bits wide, so the Goldilocks modulus              *)
(* 2^64 - 2^32 + 1 of Felt is scaled down to the prime FeltModulus; it is  *)
(* the least prime above the equally scaled-down range of a u32, 2^8, as   *)
(* the real modulus is above 2^32.                                         *)
(***************************************************************************)
EXTENDS Integers, Sequences

\* ------------------------------------------------------------------ bounds

\* Largest height and width of the exhaustively enumerated source traces.
MaxHeight == 3
MaxWidth == 2
\* Largest main-trace width a descriptor is built from.
MaxAirWidth == 80

\* ------------------------------------------------------------------ fields

\* Modulus of miden_core::Felt (scaled down, see the header).
FeltModulus == 257
\* A target field F whose modulus is smaller than Felt's (as BabyBear's or
\* Mersenne31's is smaller than Goldilocks').
SmallModulus == 5
\* The target fields convert::<F> is instantiated with: one with Felt's own
\* modulus (p3 Goldilocks) and one smaller.
TargetModuli == {FeltModulus, SmallModulus}

\* The Felt values the enumerated traces are filled with.
FeltSamples == {0, FeltModulus - 1}

\* Felt::as_int: the canonical u64 representative of a Felt.
AsInt(felt) == felt % FeltModulus

\* The number of values of a u32, 2^32, scaled down with the modulus: as in
\* the program, every u32 is below Felt's modulus.
U32Range == 256

\* Felt::from(u32)
FeltFromU32(x) == x % FeltModulus

\* Felt::ZERO
FeltZero == FeltFromU32(0)

\* Mutant of FromU64: the value is narrowed first (F::from_u32(v as u32)).
FromU64ViaU32(q, v) == (v % U32Range) % q

\* F::from_u64 for the target field of modulus q: reduces modulo q.
FromU64(q, v) == v % q

\* ------------------------------------------------------------------ traces

\* ColMatrix::get_column: the column slice of the main segment.
GetColumn(trace, col_idx) == trace.columns[col_idx + 1]

\* ExecutionTrace::length and ExecutionTrace::main_trace_width.
Length(trace) == trace.length
MainTraceWidth(trace) == trace.width

\* Every trace of height h and width w over FeltSamples.
TracesOf(h, w) ==
    { [length |-> h, width |-> w, columns |-> cols] :
        cols \in [1..w -> [1..h -> FeltSamples]] }

SmallTraces == UNION { TracesOf(h, w) : h \in 0..MaxHeight, w \in 0..MaxWidth }

\* A trace of the given dimensions with a fixed content: element (c, r) is
\* FeltModulus - 1 when r + c is odd and r + c otherwise (reduced).
PatternTrace(h, w) ==
    [length |-> h, width |-> w,
     columns |-> [c \in 1..w |-> [r \in 1..h |->
        IF (r + c) % 2 = 1 THEN FeltModulus - 1 ELSE (r + c) % FeltModulus]]]

\* The dimensions the crate's tests and the documented scenarios use
\* (test_trace_stats_calculation, test_power_of_two_padding).
ScenarioDims ==
    { <<100, 50>>, <<10, 1>>, <<64, 1>>, <<127, 1>>, <<128, 1>>, <<129, 1>>,
      <<200, 1>> }

ScenarioTraces == { PatternTrace(d[1], d[2]) : d \in ScenarioDims }

\* A trace whose column 0 counts the rows, as the clock column of an
\* execution does, with the given value in its last row; the other columns
\* are those of the fixed pattern.
IndexTrace(h, w, last) ==
    [PatternTrace(h, w) EXCEPT
        !.columns[1] = [r \in 1..h |-> IF r < h THEN r - 1 ELSE last]]

IndexTraces ==
    { IndexTrace(h, w, last) : h \in 1..MaxHeight, w \in 1..MaxWidth, last \in FeltSamples }

Traces == SmallTraces \cup ScenarioTraces \cup IndexTraces

\* ------------------------------------------------------- padding arithmetic

\* The all-ones mask covering the highest set bit of p: usize::MAX >> p.leading_zeros().
RECURSIVE OnesMask(_)
OnesMask(p) == IF p = 0 THEN 0 ELSE 2 * OnesMask(p \div 2) + 1

\* usize::one_less_than_next_power_of_two
OneLessThanNextPowerOfTwo(n) == IF n <= 1 THEN 0 ELSE OnesMask(n - 1)

\* usize::next_power_of_two, as convert and trace_stats call it.
NextPowerOfTwo(n) == OneLessThanNextPowerOfTwo(n) + 1

\* usize::trailing_zeros (of a non-zero n).
RECURSIVE TrailingZeros(_)
TrailingZeros(n) == IF n % 2 = 1 THEN 0 ELSE 1 + TrailingZeros(n \div 2)

RECURSIVE Pow2(_)
Pow2(k) == IF k = 0 THEN 1 ELSE 2 * Pow2(k - 1)

\* p3_util::log2_strict_usize: the trailing zeros of n, and a panic unless n
\* shifted right by them is 1 (n is a power of two).
Log2StrictPanics(n) == n = 0 \/ n \div Pow2(TrailingZeros(n)) # 1
Log2StrictUsize(n) == TrailingZeros(n)

\* ------------------------------------------------------------------- state

VARIABLES
    miden_trace,    \* the borrowed source ExecutionTrace
    F,              \* modulus of the target field of convert::<F>
    pc,             \* position of the running convert call, "idle" when none runs
    live,           \* the locals of convert initialised so far in this call
    height,         \* convert's local height
    width,          \* convert's local width
    padded_height,  \* convert's local padded_height
    data,           \* convert's local data: Vec<F>
    columns,        \* convert's local columns: Vec<&[Felt]>
    row_idx,        \* the outer loop's row_idx
    result,         \* what the last convert call returned
    prev_result,    \* what the convert call before it returned
    stats,          \* what the last trace_stats call returned
    air,            \* the MidenProcessorAir descriptor last constructed
    air_origin,     \* how it was constructed: "new", "new_main_only" or "literal"
    aux_ret,        \* what aux_width() last returned on it
    width_ret,      \* what BaseAir::width() last returned on it
    entry,          \* the entry point the last conversion was called through
    prev_entry,     \* the entry point of the conversion before it
    other,          \* the frame of the suspended one of two converting threads
    current_row,    \* eval's current_row: the row slice 0 of builder.main()
    next_row,       \* eval's next_row: the row slice 1 of builder.main()
    is_first_row,   \* the builder's first-row selector on this row pair
    is_transition,  \* the builder's transition selector on this row pair
    eval_pc,        \* position of the running eval call
    asserts,        \* the assertions eval has handed to the builder so far
    crate,          \* the crate whose generate_trace and FibLikeAir are run
    num_steps,      \* generate_trace's argument num_steps
    num_col,        \* generate_trace's argument num_col
    gen_ret         \* what generate_trace returned

conv_vars == <<pc, live, height, width, padded_height, data, columns, row_idx,
               result, prev_result, stats>>
air_vars == <<air, air_origin, aux_ret, width_ret>>
entry_vars == <<entry, prev_entry>>
conc_vars == <<other>>
eval_vars == <<current_row, next_row, is_first_row, is_transition, eval_pc, asserts>>
gen_vars == <<crate, num_steps, num_col, gen_ret>>
vars == <<miden_trace, F, conv_vars, air_vars, entry_vars, conc_vars, eval_vars, gen_vars>>

\* Result<RowMajorMatrix<F>, ConversionError>, or no call returned yet.
NoResult == [tag |-> "None", err |-> "", values |-> <<>>, width |-> 0]
Err(e) == [tag |-> "Err", err |-> e, values |-> <<>>, width |-> 0]
Panicked == [tag |-> "Panic", err |-> "", values |-> <<>>, width |-> 0]

\* RowMajorMatrix::new(values, width); it asserts that the values fill whole rows.
RowMajorMatrixNew(values, w) ==
    IF w = 0 \/ Len(values) % w = 0
    THEN [tag |-> "Ok", err |-> "", values |-> values, width |-> w]
    ELSE Panicked

\* Matrix::width and Matrix::height of a RowMajorMatrix.
MatrixWidth(m) == m.width
MatrixHeight(m) == IF m.width = 0 THEN 0 ELSE Len(m.values) \div m.width

\* The element at row r, column c (0-based) of a RowMajorMatrix.
MatrixGet(m, r, c) == m.values[r * m.width + c + 1]

\* TraceStats, or no call returned yet.
NoStats ==
    [tag |-> "None", original_height |-> 0, padded_height |-> 0, width |-> 0,
     padding_rows |-> 0, log_height |-> 0]

\* No descriptor constructed, nothing returned.
NoAir == [set |-> FALSE, width |-> 0, aux_width |-> 0, has_aux_columns |-> FALSE]
NoRet == [set |-> FALSE, value |-> 0]
Ret(v) == [set |-> TRUE, value |-> v]

ConvInit ==
    /\ pc = "idle"
    /\ live = {}
    /\ height = 0
    /\ width = 0
    /\ padded_height = 0
    /\ data = <<>>
    /\ columns = <<>>
    /\ row_idx = 0
    /\ result = NoResult
    /\ prev_result = NoResult
    /\ stats = NoStats

AirInit ==
    /\ air = NoAir
    /\ air_origin = "none"
    /\ aux_ret = NoRet
    /\ width_ret = NoRet

\* No conversion called yet; no second thread; no eval call.
EntryInit ==
    /\ entry = "none"
    /\ prev_entry = "none"

NoThread == [started |-> FALSE]

ConcInit == other = NoThread

EvalInit ==
    /\ current_row = <<>>
    /\ next_row = <<>>
    /\ is_first_row = 0
    /\ is_transition = 0
    /\ eval_pc = "idle"
    /\ asserts = <<>>

\* generate_trace not called.
NoGen == [tag |-> "None", values |-> <<>>, width |-> 0, final_result |-> 0]

GenInit ==
    /\ crate = "none"
    /\ num_steps = 0
    /\ num_col = 0
    /\ gen_ret = NoGen

Init ==
    /\ miden_trace \in Traces
    /\ F \in TargetModuli
    /\ ConvInit
    /\ AirInit
    /\ EntryInit
    /\ ConcInit
    /\ EvalInit
    /\ GenInit

\* ----------------------------------------------- TraceConverter::convert

\* `row_idx as u32`: truncation to the width of u32.
AsU32(x) == x % U32Range

\* Mutant of VecWithCapacity: a buffer kept from the previous call, not cleared.
VecStale(capacity) == data

\* Vec::with_capacity: a new, empty vector.
VecWithCapacity(capacity) == <<>>

\* Mutants of PaddedHeight: no padding at all; the power of two above height + 1.
PaddedHeightUnpadded(h) == h
PaddedHeightStrict(h) == NextPowerOfTwo(h + 1)

\* let padded_height = height.next_power_of_two();
PaddedHeight(h) == NextPowerOfTwo(h)

\* Mutant of IsEmptyTrace: the width is not tested.
IsEmptyTraceHeightOnly(h, w) == h = 0

\* The rejection test of convert: height == 0 || width == 0.
IsEmptyTrace(h, w) == h = 0 \/ w = 0

\* Whether the element (row, col) is taken from the source columns.
ReadsSource(row, col) == row < height - 1 \/ (row = height - 1 /\ col # 0)

\* columns[col][row], and whether that index is in range (a panic otherwise).
InRange(row, col) ==
    /\ col + 1 \in DOMAIN columns
    /\ row + 1 \in DOMAIN columns[col + 1]
ColumnAt(row, col) == columns[col + 1][row + 1]

\* Mutant of BoundaryValue: the source value is kept.
BoundaryValueFromSource(row) == ColumnAt(row, 0)

\* The value written to column 0 of the last original row.
BoundaryValue(row) == FeltFromU32(AsU32(row))

\* Mutant of PaddingValue: padding with ones.
PaddingValueOne == FeltFromU32(1)

\* The value of the padding rows.
PaddingValue == FeltZero

\* felt_value of the inner loop body.
FeltValue(row, col) ==
    IF row < height - 1
    THEN ColumnAt(row, col)
    ELSE IF row = height - 1
         THEN IF col = 0 THEN BoundaryValue(row) ELSE ColumnAt(row, col)
         ELSE PaddingValue

\* Mutant of ConvertElement: a value the target field cannot represent is
\* stored as the largest element.
ConvertElementSaturating(felt_value) ==
    IF AsInt(felt_value) >= F THEN F - 1 ELSE AsInt(felt_value)

\* F::from_u64(felt_value.as_int())
ConvertElement(felt_value) == FromU64(F, AsInt(felt_value))

\* Mutant of ConvertedRow: the columns are pushed in reverse order.
ConvertedRowReversed(row) ==
    [c \in 1..width |-> ConvertElement(FeltValue(row, width - c))]

\* What one pass of the inner loop pushes: the elements of row `row`.
ConvertedRow(row) == [c \in 1..width |-> ConvertElement(FeltValue(row, c - 1))]

\* The three entry points: TraceConverter::convert itself, and the wrappers
\* convert_miden_trace and convert_miden_execution, which call it.
EntryPoints == {"convert", "convert_miden_trace", "convert_miden_execution"}

\* Mutant of EntryResult: convert_miden_execution swallows the error and
\* returns an empty matrix.
EntryResultSwallowed(e, r) ==
    IF e = "convert_miden_execution" /\ r.tag = "Err"
    THEN [tag |-> "Ok", err |-> "", values |-> <<>>, width |-> 0]
    ELSE r

\* What entry point e hands back of the result r of TraceConverter::convert:
\* convert_miden_trace returns it as it is, convert_miden_execution passes an
\* error on with `?` and keeps the matrix.
EntryResult(e, r) == r

\* The call through entry point e: read the dimensions and reject an empty
\* trace.  The locals of the previous call are dead; each holds its stale
\* value until its `let`.
ConvertCallVia(e) ==
    /\ pc = "idle"
    /\ entry' = e
    /\ prev_entry' = entry
    /\ height' = Length(miden_trace)
    /\ width' = MainTraceWidth(miden_trace)
    /\ prev_result' = result
    /\ live' = {"height", "width"}
    /\ \/ /\ IsEmptyTrace(height', width')
          /\ result' = EntryResult(e, Err("EmptyTrace"))
          /\ pc' = "idle"
       \/ /\ ~IsEmptyTrace(height', width')
          /\ result' = NoResult
          /\ pc' = "alloc"
    /\ UNCHANGED <<miden_trace, F, padded_height, data, columns, row_idx, stats,
                   air_vars, conc_vars, eval_vars, gen_vars>>

\* A direct call of TraceConverter::convert.
ConvertCall == ConvertCallVia("convert")

\* padded_height and the allocation of the output buffer.
ConvertAlloc ==
    /\ pc = "alloc"
    /\ padded_height' = PaddedHeight(height)
    /\ data' = VecWithCapacity(padded_height' * width)
    /\ live' = live \cup {"padded_height", "data"}
    /\ pc' = "fetch"
    /\ UNCHANGED <<miden_trace, F, height, width, columns, row_idx, result,
                   prev_result, stats, air_vars, entry_vars, conc_vars, eval_vars, gen_vars>>

\* The pre-fetch of all the column slices of the main segment.
ConvertFetchColumns ==
    /\ pc = "fetch"
    /\ columns' = [c \in 1..width |-> GetColumn(miden_trace, c - 1)]
    /\ live' = live \cup {"columns"}
    /\ row_idx' = 0
    /\ pc' = "fill"
    /\ UNCHANGED <<miden_trace, F, height, width, padded_height, data, result,
                   prev_result, stats, air_vars, entry_vars, conc_vars, eval_vars, gen_vars>>

\* Mutant of SourceAfterRow: the boundary overwrite of column 0 lands in the
\* source trace.
SourceOverwritten(trace, r) ==
    IF r = height - 1 /\ width > 0
    THEN [trace EXCEPT !.columns[1][r + 1] = BoundaryValue(r)]
    ELSE trace

\* The source trace after one row is pushed: convert holds the trace by
\* shared reference and every push goes to data.
SourceAfterRow(trace, r) == trace

\* One iteration of the outer loop: the inner loop pushes one row.
ConvertFillRow ==
    /\ pc = "fill"
    /\ row_idx < padded_height
    /\ IF \E c \in 0..(width - 1) : ReadsSource(row_idx, c) /\ ~InRange(row_idx, c)
       THEN /\ result' = Panicked
            /\ pc' = "idle"
            /\ UNCHANGED <<data, row_idx>>
       ELSE /\ data' = data \o ConvertedRow(row_idx)
            /\ row_idx' = row_idx + 1
            /\ UNCHANGED <<result, pc>>
    /\ miden_trace' = SourceAfterRow(miden_trace, row_idx)
    /\ UNCHANGED <<F, live, height, width, padded_height, columns,
                   prev_result, stats, air_vars, entry_vars, conc_vars, eval_vars, gen_vars>>

\* Ok(RowMajorMatrix::new(data, width))
ConvertReturn ==
    /\ pc = "fill"
    /\ row_idx >= padded_height
    /\ result' = EntryResult(entry, RowMajorMatrixNew(data, width))
    /\ pc' = IF entry = "convert_miden_execution" THEN "new_air" ELSE "idle"
    /\ UNCHANGED <<miden_trace, F, live, height, width, padded_height, data,
                   columns, row_idx, prev_result, stats, air_vars, entry_vars, conc_vars, eval_vars, gen_vars>>

\* ------------------------------------------- TraceConverter::trace_stats

\* Mutant of TraceStatsOf: an empty trace is rejected as convert rejects it.
TraceStatsOfRejectingEmpty(trace) ==
    IF Length(trace) = 0
    THEN [NoStats EXCEPT !.tag = "Err"]
    ELSE [tag |-> "Ok",
          original_height |-> Length(trace),
          padded_height |-> NextPowerOfTwo(Length(trace)),
          width |-> MainTraceWidth(trace),
          padding_rows |-> NextPowerOfTwo(Length(trace)) - Length(trace),
          log_height |-> Log2StrictUsize(NextPowerOfTwo(Length(trace)))]

\* Mutant of TraceStatsOf: the padding is computed from height + 1.
TraceStatsOfNextHeight(trace) ==
    LET h == Length(trace)
        padded == NextPowerOfTwo(h + 1)
    IN  [tag |-> "Ok",
         original_height |-> h,
         padded_height |-> padded,
         width |-> MainTraceWidth(trace),
         padding_rows |-> padded - h,
         log_height |-> Log2StrictUsize(padded)]

\* The record trace_stats returns; log2_strict_usize panics on a padded
\* height that is no power of two and the subtraction on a negative result.
TraceStatsOf(trace) ==
    LET h == Length(trace)
        padded == NextPowerOfTwo(h)
    IN  IF padded < h \/ Log2StrictPanics(padded)
        THEN [NoStats EXCEPT !.tag = "Panic"]
        ELSE [tag |-> "Ok",
              original_height |-> h,
              padded_height |-> padded,
              width |-> MainTraceWidth(trace),
              padding_rows |-> padded - h,
              log_height |-> Log2StrictUsize(padded)]

TraceStatsCall ==
    /\ pc = "idle"
    /\ stats' = TraceStatsOf(miden_trace)
    /\ UNCHANGED <<miden_trace, F, pc, live, height, width, padded_height, data,
                   columns, row_idx, result, prev_result, air_vars, entry_vars, conc_vars, eval_vars, gen_vars>>

Next ==
    \/ ConvertCall
    \/ ConvertAlloc
    \/ ConvertFetchColumns
    \/ ConvertFillRow
    \/ ConvertReturn
    \/ TraceStatsCall

Spec == Init /\ [][Next]_vars

\* ------------------------------------------------------ MidenProcessorAir

\* const AUX_TRACE_WIDTH inside MidenProcessorAir::new
AUX_TRACE_WIDTH == 8

\* The traces descriptors are built from: one of each width up to MaxAirWidth.
AirTraces == { PatternTrace(1, w) : w \in 0..MaxAirWidth }

\* The field values the struct literals of the module's tests are written
\* with (width 80 and 100; aux_width 8 and 0), each flag with each aux_width.
LiteralWidths == {80, 100}
LiteralAuxWidths == {0, AUX_TRACE_WIDTH}

\* Mutant of AirNewOf: the captured width counts the auxiliary columns too.
AirNewOfTotalWidth(trace) ==
    [set |-> TRUE, width |-> MainTraceWidth(trace) + AUX_TRACE_WIDTH,
     aux_width |-> AUX_TRACE_WIDTH, has_aux_columns |-> TRUE]

\* MidenProcessorAir::new
AirNewOf(trace) ==
    [set |-> TRUE, width |-> MainTraceWidth(trace), aux_width |-> AUX_TRACE_WIDTH,
     has_aux_columns |-> TRUE]

\* MidenProcessorAir::new_main_only
AirNewMainOnlyOf(trace) ==
    [set |-> TRUE, width |-> MainTraceWidth(trace), aux_width |-> 0,
     has_aux_columns |-> FALSE]

\* Mutant of AuxWidthOf: the flag is not consulted.
AuxWidthStored(self) == self.aux_width

\* MidenProcessorAir::aux_width
AuxWidthOf(self) == IF self.has_aux_columns THEN self.aux_width ELSE 0

\* <MidenProcessorAir as BaseAir<F>>::width
BaseAirWidthOf(self) == self.width

AirNew ==
    /\ air' = AirNewOf(miden_trace)
    /\ air_origin' = "new"
    /\ aux_ret' = NoRet
    /\ width_ret' = NoRet
    /\ UNCHANGED <<miden_trace, F, conv_vars, entry_vars, conc_vars, eval_vars, gen_vars>>

AirNewMainOnly ==
    /\ air' = AirNewMainOnlyOf(miden_trace)
    /\ air_origin' = "new_main_only"
    /\ aux_ret' = NoRet
    /\ width_ret' = NoRet
    /\ UNCHANGED <<miden_trace, F, conv_vars, entry_vars, conc_vars, eval_vars, gen_vars>>

\* A descriptor written as a struct literal, as the tests of the module do.
AirLiteral ==
    /\ \E w \in LiteralWidths, a \in LiteralAuxWidths, b \in BOOLEAN :
          air' = [set |-> TRUE, width |-> w, aux_width |-> a, has_aux_columns |-> b]
    /\ air_origin' = "literal"
    /\ aux_ret' = NoRet
    /\ width_ret' = NoRet
    /\ UNCHANGED <<miden_trace, F, conv_vars, entry_vars, conc_vars, eval_vars, gen_vars>>

AuxWidthCall ==
    /\ air.set
    /\ aux_ret' = Ret(AuxWidthOf(air))
    /\ UNCHANGED <<miden_trace, F, conv_vars, entry_vars, conc_vars, eval_vars, gen_vars, air, air_origin, width_ret>>

BaseAirWidthCall ==
    /\ air.set
    /\ width_ret' = Ret(BaseAirWidthOf(air))
    /\ UNCHANGED <<miden_trace, F, conv_vars, entry_vars, conc_vars, eval_vars, gen_vars, air, air_origin, aux_ret>>

InitAir ==
    /\ miden_trace \in AirTraces
    /\ F = FeltModulus
    /\ ConvInit
    /\ AirInit
    /\ EntryInit
    /\ ConcInit
    /\ EvalInit
    /\ GenInit

NextAir ==
    \/ AirNew
    \/ AirNewMainOnly
    \/ AirLiteral
    \/ AuxWidthCall
    \/ BaseAirWidthCall

SpecAir == InitAir /\ [][NextAir]_vars

\* ------------------------------------------------ MidenProcessorAir::eval

\* The field the builder evaluates over, AB::F: the 31-bit prime field
\* BabyBear of Plonky3 (Goldilocks does not fit TLC's integers).  Elements
\* are canonical integers; the arithmetic below never leaves 32 bits.
EvalModulus == 2013265921

AddMod(q, a, b) == IF a >= q - b THEN a - (q - b) ELSE a + b
SubMod(q, a, b) == IF a >= b THEN a - b ELSE a + (q - b)

RECURSIVE MulMod(_, _, _)
MulMod(q, a, b) ==
    IF a = 0 \/ b = 0
    THEN 0
    ELSE LET rest == MulMod(q, AddMod(q, a, a), b \div 2)
         IN  IF b % 2 = 1 THEN AddMod(q, rest, a) ELSE rest

\* AB::F::ZERO, AB::F::ONE and AB::F::from_u64 in the builder's field.
FZero == FromU64(F, 0)
FOne == FromU64(F, 1)

\* current[col] and next[col]; OutOfRange stands for the panic of an index
\* past the end of the row slice.
OutOfRange == 0 - 1
Cur(col) == IF col < Len(current_row) THEN current_row[col + 1] ELSE OutOfRange
Nxt(col) == IF col < Len(next_row) THEN next_row[col + 1] ELSE OutOfRange

\* One assertion handed to the builder: the segment that emitted it, its
\* name, the value of the selector it is filtered by (when_transition,
\* when_first_row, when(..); one when unfiltered) and the value of the
\* expression asserted zero.
Assertion(seg, id, gate, expr) == [seg |-> seg, id |-> id, gate |-> gate, expr |-> expr]

\* Mutant of EqExpr: the right-hand side is dropped.
EqExprLeftOnly(a, b) == a

\* Mutant of BoolExpr: the square, zero only at zero.
BoolExprSquare(x) == MulMod(F, x, x)

\* builder.assert_eq(a, b) asserts a - b zero; builder.assert_bool(x)
\* asserts x * (x - 1) zero.
EqExpr(a, b) == SubMod(F, a, b)
BoolExpr(x) == MulMod(F, x, SubMod(F, x, FOne))

\* The columns a method reads of the current and of the next row.
Reads(cur, nxt) == [cur |-> cur, nxt |-> nxt]

\* The elements of a sequence of assertions or none, by a condition.
If(cond, seq) == IF cond THEN seq ELSE <<>>

\* Column indices of the system segment.
CLK_COL == 0
FMP_COL == 1
IN_SYSCALL_COL == 3

\* enforce_system_constraints
SystemReads(w) ==
    Reads((IF w > CLK_COL THEN {CLK_COL} ELSE {})
              \cup (IF w > FMP_COL THEN {FMP_COL} ELSE {})
              \cup (IF w > IN_SYSCALL_COL THEN {IN_SYSCALL_COL} ELSE {}),
          IF w > CLK_COL THEN {CLK_COL} ELSE {})

SystemAsserts(w) ==
    If(w > CLK_COL,
       << Assertion("system", "clk_increment", is_transition,
                    EqExpr(Nxt(CLK_COL), AddMod(F, Cur(CLK_COL), FOne))),
          Assertion("system", "clk_first_row", is_first_row,
                    EqExpr(Cur(CLK_COL), FZero)) >>)
    \o If(w > FMP_COL,
          << Assertion("system", "fmp_first_row", is_first_row,
                       EqExpr(Cur(FMP_COL), FromU64(F, 1073741824))) >>)
    \o If(w > IN_SYSCALL_COL,
          << Assertion("system", "in_syscall_bool", FOne,
                       BoolExpr(Cur(IN_SYSCALL_COL))) >>)

\* Layout of the decoder segment.
DECODER_OFFSET == 8
DECODER_WIDTH == 24
GROUP_COUNT_OFFSET == 17
ControlFlagOffsets == <<13, 14, 15, 16>>

\* The columns the decoder asserts boolean: the 7 operation bits and the 4
\* control-flow flags, each under its own width guard.
DecoderBoolCols(w) ==
    { DECODER_OFFSET + 1 + i : i \in { j \in 0..6 : DECODER_OFFSET + 1 + j < w } }
    \cup { DECODER_OFFSET + ControlFlagOffsets[k] :
             k \in { j \in 1..4 : DECODER_OFFSET + ControlFlagOffsets[j] < w } }

\* The ascending enumeration of a finite set of numbers.
RECURSIVE Ascending(_)
Ascending(S) ==
    IF S = {} THEN <<>>
    ELSE LET m == CHOOSE x \in S : \A y \in S : x <= y
         IN  <<m>> \o Ascending(S \ {m})

\* enforce_decoder_constraints
DecoderReads(w) ==
    IF w < DECODER_OFFSET + DECODER_WIDTH
    THEN Reads({}, {})
    ELSE LET group == IF DECODER_OFFSET + GROUP_COUNT_OFFSET + 1 < w
                      THEN {DECODER_OFFSET + GROUP_COUNT_OFFSET} ELSE {}
         IN  Reads(DecoderBoolCols(w) \cup group, group)

DecoderAsserts(w) ==
    IF w < DECODER_OFFSET + DECODER_WIDTH
    THEN <<>>
    ELSE LET cols == Ascending(DecoderBoolCols(w))
             diff == SubMod(F, Cur(DECODER_OFFSET + GROUP_COUNT_OFFSET),
                               Nxt(DECODER_OFFSET + GROUP_COUNT_OFFSET))
         IN  [k \in 1..Len(cols) |->
                 Assertion("decoder", "bool", FOne, BoolExpr(Cur(cols[k])))]
             \o If(DECODER_OFFSET + GROUP_COUNT_OFFSET + 1 < w,
                   << Assertion("decoder", "group_count", is_transition,
                                MulMod(F, diff, SubMod(F, diff, FOne))) >>)

\* Layout of the stack segment.
STACK_OFFSET == 32
STACK_WIDTH == 19
STACK_DEPTH_COL == STACK_OFFSET + 16
\* Mutant of StackSlot: the slots are taken one column to the right.
StackSlotShifted(stack_pos) == STACK_OFFSET + stack_pos + 1
StackSlot(stack_pos) == STACK_OFFSET + stack_pos

\* The main stack positions the loop visits and whose column exists.
StackPositions(w) == { stack_pos \in 0..15 : StackSlot(stack_pos) < w }

\* enforce_stack_constraints
StackReads(w) ==
    IF w < STACK_OFFSET + STACK_WIDTH
    THEN Reads({}, {})
    ELSE LET slots == { StackSlot(stack_pos) : stack_pos \in StackPositions(w) }
         IN  Reads((IF STACK_DEPTH_COL < w THEN {STACK_DEPTH_COL} ELSE {}) \cup slots,
                   slots)

\* Mutant of StackAsserts: the early return on a narrow width is missing.
StackAssertsUnguarded(w) ==
    [k \in 1..Len(Ascending(StackPositions(w))) |->
        Assertion("stack", "slot", is_transition,
                  SubMod(F, Nxt(StackSlot(Ascending(StackPositions(w))[k])),
                            Cur(StackSlot(Ascending(StackPositions(w))[k]))))]

StackAsserts(w) ==
    IF w < STACK_OFFSET + STACK_WIDTH
    THEN <<>>
    ELSE LET depth == Cur(STACK_DEPTH_COL)
             poss == Ascending(StackPositions(w))
         IN  If(STACK_DEPTH_COL < w,
                << Assertion("stack", "depth", is_transition,
                             SubMod(F, MulMod(F, depth, SubMod(F, depth, FromU64(F, 16))),
                                    FOne)) >>)
             \o [k \in 1..Len(poss) |->
                    Assertion("stack", "slot", is_transition,
                              SubMod(F, Nxt(StackSlot(poss[k])), Cur(StackSlot(poss[k]))))]

\* Layout of the range-check segment.
RANGE_OFFSET == 51
RANGE_WIDTH == 2
\* Mutant of V_COL: the value is taken from the column before the segment.
VColBeforeSegment == RANGE_OFFSET - 1

V_COL == RANGE_OFFSET
B_COL == RANGE_OFFSET + 1

\* enforce_range_check_constraints
RangeCheckReads(w) ==
    IF w < RANGE_OFFSET + RANGE_WIDTH \/ ~(V_COL < w /\ B_COL < w)
    THEN Reads({}, {})
    ELSE Reads({V_COL, B_COL}, {})

RangeCheckAsserts(w) ==
    IF w < RANGE_OFFSET + RANGE_WIDTH
    THEN <<>>
    ELSE If(V_COL < w /\ B_COL < w,
            << Assertion("range_check", "value", FOne,
                         MulMod(F, SubMod(F, Cur(V_COL), FromU64(F, 65536)),
                                   SubMod(F, Cur(V_COL), FZero))) >>)

\* Layout of the chiplets segment.
CHIPLETS_OFFSET == 53
CHIPLETS_WIDTH == 20
MemoryValueOffset == 10
BitwiseOutputOffset == 15

\* The selector columns the loop visits and whose column exists.
SelectorCols(w) == { CHIPLETS_OFFSET + i : i \in { j \in 0..5 : CHIPLETS_OFFSET + j < w } }

\* enforce_chiplet_constraints
ChipletReads(w) ==
    IF w < CHIPLETS_OFFSET + CHIPLETS_WIDTH
    THEN Reads({}, {})
    ELSE Reads(SelectorCols(w)
                 \cup {CHIPLETS_OFFSET}
                 \cup (IF CHIPLETS_OFFSET + 2 < w
                       THEN {CHIPLETS_OFFSET, CHIPLETS_OFFSET + 1, CHIPLETS_OFFSET + 2,
                             CHIPLETS_OFFSET + MemoryValueOffset}
                       ELSE {})
                 \cup (IF CHIPLETS_OFFSET + 1 < w
                       THEN {CHIPLETS_OFFSET, CHIPLETS_OFFSET + 1}
                       ELSE {})
                 \cup (IF CHIPLETS_OFFSET + 1 < w /\ CHIPLETS_OFFSET + BitwiseOutputOffset < w
                       THEN {CHIPLETS_OFFSET + BitwiseOutputOffset}
                       ELSE {}),
               IF CHIPLETS_OFFSET + 2 < w
               THEN {CHIPLETS_OFFSET + MemoryValueOffset} ELSE {})

\* Mutant of IsMemoryOp: the third selector is not consulted.
IsMemoryOpTwoSelectors(sel0, sel1, sel2) == MulMod(F, sel0, sel1)

\* is_memory_op = sel0 * sel1 * (1 - sel2); is_bitwise_op = sel0 * (1 - sel1).
IsMemoryOp(sel0, sel1, sel2) == MulMod(F, MulMod(F, sel0, sel1), SubMod(F, FOne, sel2))
IsBitwiseOp(sel0, sel1) == MulMod(F, sel0, SubMod(F, FOne, sel1))

ChipletAsserts(w) ==
    IF w < CHIPLETS_OFFSET + CHIPLETS_WIDTH
    THEN <<>>
    ELSE LET cols == Ascending(SelectorCols(w))
             sel0 == Cur(CHIPLETS_OFFSET)
             sel1 == Cur(CHIPLETS_OFFSET + 1)
             sel2 == Cur(CHIPLETS_OFFSET + 2)
             is_memory_op == IsMemoryOp(sel0, sel1, sel2)
             is_bitwise_op == IsBitwiseOp(sel0, sel1)
         IN  [k \in 1..Len(cols) |->
                 Assertion("chiplets", "selector_bool", FOne, BoolExpr(Cur(cols[k])))]
             \o If(CHIPLETS_OFFSET + 2 < w,
                   << Assertion("chiplets", "memory", is_memory_op,
                                SubMod(F, Nxt(CHIPLETS_OFFSET + MemoryValueOffset),
                                          Cur(CHIPLETS_OFFSET + MemoryValueOffset))) >>)
             \o If(CHIPLETS_OFFSET + 1 < w /\ CHIPLETS_OFFSET + BitwiseOutputOffset < w,
                   << Assertion("chiplets", "bitwise", is_bitwise_op,
                                SubMod(F, Cur(CHIPLETS_OFFSET + BitwiseOutputOffset), FZero)) >>)

\* enforce_boundary_constraints: the clock read has no width guard.
CTX_COL == 2

BoundaryReads(w) ==
    Reads({CLK_COL} \cup (IF w > CTX_COL THEN {CTX_COL} ELSE {}), {})

\* Mutant of BoundaryAsserts: the assertions apply on every row.
BoundaryAssertsEveryRow(w) ==
    << Assertion("boundary", "clk_first_row", FOne, EqExpr(Cur(CLK_COL), FZero)) >>
    \o If(w > CTX_COL,
          << Assertion("boundary", "ctx_first_row", FOne, EqExpr(Cur(CTX_COL), FZero)) >>)

BoundaryAsserts(w) ==
    << Assertion("boundary", "clk_first_row", is_first_row, EqExpr(Cur(CLK_COL), FZero)) >>
    \o If(w > CTX_COL,
          << Assertion("boundary", "ctx_first_row", is_first_row,
                       EqExpr(Cur(CTX_COL), FZero)) >>)

\* The widths eval is exercised at: each side of every guard of the segment
\* methods, and the widest descriptor.
EvalWidths ==
    {0, 1, 2, 3, 4, 7, 8, 31, 32, 50, 51, 52, 53, 72, 73, MaxAirWidth}

EvalTraces == { PatternTrace(1, w) : w \in EvalWidths }

\* The values a cell of the two-row window takes: zero, one, two, the
\* largest element and, for the frame pointer, 2^30; for the stack depth
\* also 16 and 17, for the range-checked value also 65535 and 65536.
EvalSamples(col) ==
    IF col = FMP_COL
    THEN {0, 1, 1073741824 % F, F - 1}
    ELSE IF col = STACK_DEPTH_COL
    THEN {0, 1, 2, 16, 17, F - 1}
    ELSE IF col = V_COL
    THEN {0, 1, 2, 65535, 65536, F - 1}
    ELSE {0, 1, 2, F - 1}

\* A window that satisfies the system segment: the clock at 0 then 1, the
\* frame pointer at 2^30, every other cell zero.
BaseCurrent(w) == [c \in 1..w |-> IF c - 1 = FMP_COL THEN 1073741824 % F ELSE 0]
BaseNext(w) ==
    [c \in 1..w |-> IF c - 1 = CLK_COL THEN 1
                    ELSE IF c - 1 = FMP_COL THEN 1073741824 % F ELSE 0]

\* Two all-zero rows, as convert pads with.
PaddingWindow(w) == <<[c \in 1..w |-> 0], [c \in 1..w |-> 0]>>

\* The base window with the first three chiplet selectors set to each bit
\* pattern, the memory value changing or not, the bitwise output zero or
\* one.
ChipletWindows(w) ==
    IF w < CHIPLETS_OFFSET + CHIPLETS_WIDTH
    THEN {}
    ELSE { << [BaseCurrent(w) EXCEPT ![CHIPLETS_OFFSET + 1] = p[1],
                                     ![CHIPLETS_OFFSET + 2] = p[2],
                                     ![CHIPLETS_OFFSET + 3] = p[3],
                                     ![CHIPLETS_OFFSET + BitwiseOutputOffset + 1] = p[5]],
              [BaseNext(w) EXCEPT ![CHIPLETS_OFFSET + MemoryValueOffset + 1] = p[4]] >> :
             p \in {0, 1} \X {0, 1} \X {0, 1} \X {0, 1} \X {0, 1} }

\* The windows the builder hands to eval: the base window, the padding
\* window, the chiplet windows, and the base window with one column set to
\* each pair of sample values.
Windows(w) ==
    { <<BaseCurrent(w), BaseNext(w)>>, PaddingWindow(w) }
    \cup ChipletWindows(w)
    \cup UNION { { <<[BaseCurrent(w) EXCEPT ![k + 1] = ab[1]],
                     [BaseNext(w) EXCEPT ![k + 1] = ab[2]]>> :
                       ab \in EvalSamples(k) \X EvalSamples(k) } :
                   k \in 0..(w - 1) }

\* Whether every column a method reads exists in the row slices.
InBounds(reads) ==
    /\ \A c \in reads.cur : c < Len(current_row)
    /\ \A c \in reads.nxt : c < Len(next_row)

\* eval entered: builder.main(), row_slice(0) and row_slice(1), and the
\* selectors is_first_row and is_transition of the row under evaluation.
EvalCall ==
    /\ eval_pc = "idle"
    /\ air.set
    /\ \E win \in Windows(air.width), first \in {0, 1}, trans \in {0, 1} :
          /\ current_row' = win[1]
          /\ next_row' = win[2]
          /\ is_first_row' = first
          /\ is_transition' = trans
    /\ asserts' = <<>>
    /\ eval_pc' = "system"
    /\ UNCHANGED <<miden_trace, F, conv_vars, air_vars, entry_vars, conc_vars, gen_vars>>

\* One segment method called by eval: it panics on an index past the end of
\* a row slice, else hands its assertions to the builder and returns.
EvalSegment(seg, reads, emitted, after) ==
    /\ eval_pc = seg
    /\ IF InBounds(reads)
       THEN /\ asserts' = asserts \o emitted
            /\ eval_pc' = after
       ELSE /\ asserts' = asserts
            /\ eval_pc' = "panicked"
    /\ UNCHANGED <<miden_trace, F, conv_vars, air_vars, entry_vars, conc_vars, gen_vars,
                   current_row, next_row, is_first_row, is_transition>>

EvalSystem ==
    EvalSegment("system", SystemReads(air.width), SystemAsserts(air.width), "decoder")
EvalDecoder ==
    EvalSegment("decoder", DecoderReads(air.width), DecoderAsserts(air.width), "stack")
EvalStack ==
    EvalSegment("stack", StackReads(air.width), StackAsserts(air.width), "range_check")
EvalRangeCheck ==
    EvalSegment("range_check", RangeCheckReads(air.width), RangeCheckAsserts(air.width),
                "chiplets")
EvalChiplets ==
    EvalSegment("chiplets", ChipletReads(air.width), ChipletAsserts(air.width), "boundary")
EvalBoundary ==
    EvalSegment("boundary", BoundaryReads(air.width), BoundaryAsserts(air.width), "done")

InitEval ==
    /\ miden_trace \in EvalTraces
    /\ F = EvalModulus
    /\ ConvInit
    /\ AirInit
    /\ EntryInit
    /\ ConcInit
    /\ EvalInit
    /\ GenInit

NextEval ==
    \/ AirNew
    \/ EvalCall
    \/ EvalSystem
    \/ EvalDecoder
    \/ EvalStack
    \/ EvalRangeCheck
    \/ EvalChiplets
    \/ EvalBoundary

SpecEval == InitEval /\ [][NextEval]_vars

\* ------------------------- convert_miden_trace, convert_miden_execution

\* A call of one of the two wrappers.
WrapperCall ==
    \E e \in EntryPoints \ {"convert"} : ConvertCallVia(e)

\* convert_miden_execution after the conversion succeeded: the descriptor is
\* built from the same trace and returned with the matrix.
ExecutionNewAir ==
    /\ pc = "new_air"
    /\ air' = AirNewOf(miden_trace)
    /\ air_origin' = "new"
    /\ pc' = "idle"
    /\ UNCHANGED <<miden_trace, F, live, height, width, padded_height, data,
                   columns, row_idx, result, prev_result, stats, aux_ret,
                   width_ret, entry_vars, conc_vars, eval_vars, gen_vars>>

InitEntry ==
    /\ miden_trace \in SmallTraces
    /\ F \in TargetModuli
    /\ ConvInit
    /\ AirInit
    /\ EntryInit
    /\ ConcInit
    /\ EvalInit
    /\ GenInit

NextEntry ==
    \/ ConvertCall
    \/ WrapperCall
    \/ ConvertAlloc
    \/ ConvertFetchColumns
    \/ ConvertFillRow
    \/ ConvertReturn
    \/ ExecutionNewAir

SpecEntry == InitEntry /\ [][NextEntry]_vars

\* ------------------------------------------- two concurrent convert calls

\* The inputs of the two calls: every one-column trace up to MaxHeight rows,
\* the empty trace among them, two-column traces of fixed content and every
\* two-column trace of one row.
ConcTraces ==
    UNION { TracesOf(h, 1) : h \in 0..MaxHeight }
    \cup { PatternTrace(h, 2) : h \in 1..MaxHeight }
    \cup TracesOf(1, 2)

\* The stack frame of a call: its argument, its locals, what it returned.
FrameOf(trace, at, lv, h, w, ph, d, cols, idx, res, prev, e, pe) ==
    [started |-> TRUE, miden_trace |-> trace, pc |-> at, live |-> lv, height |-> h,
     width |-> w, padded_height |-> ph, data |-> d, columns |-> cols, row_idx |-> idx,
     result |-> res, prev_result |-> prev, entry |-> e, prev_entry |-> pe]

\* The frame of the running call, and that of a call not entered yet.
RunningFrame ==
    FrameOf(miden_trace, pc, live, height, width, padded_height, data, columns,
            row_idx, result, prev_result, entry, prev_entry)
FreshFrame(trace) ==
    FrameOf(trace, "idle", {}, 0, 0, 0, <<>>, <<>>, 0, NoResult, NoResult, "none", "none")

\* Mutant of ResumedRowIdx: the loop counter is shared by the two calls.
SharedRowIdx(frame) == row_idx

\* The locals a call finds when its thread is scheduled again: its own.
ResumedRowIdx(frame) == frame.row_idx
ResumedData(frame) == frame.data

\* The scheduler suspends the running call between two of its steps and
\* resumes the other one.
Switch ==
    /\ other.started
    /\ other' = RunningFrame
    /\ miden_trace' = other.miden_trace
    /\ pc' = other.pc
    /\ live' = other.live
    /\ height' = other.height
    /\ width' = other.width
    /\ padded_height' = other.padded_height
    /\ data' = ResumedData(other)
    /\ columns' = other.columns
    /\ row_idx' = ResumedRowIdx(other)
    /\ result' = other.result
    /\ prev_result' = other.prev_result
    /\ entry' = other.entry
    /\ prev_entry' = other.prev_entry
    /\ UNCHANGED <<F, stats, air_vars, eval_vars, gen_vars>>

InitConc ==
    /\ miden_trace \in ConcTraces
    /\ F \in TargetModuli
    /\ ConvInit
    /\ AirInit
    /\ EntryInit
    /\ other \in { FreshFrame(trace) : trace \in ConcTraces }
    /\ EvalInit
    /\ GenInit

NextConc ==
    \/ ConvertCall
    \/ ConvertAlloc
    \/ ConvertFetchColumns
    \/ ConvertFillRow
    \/ ConvertReturn
    \/ Switch

SpecConc == InitConc /\ [][NextConc]_vars

\* ------------------------------------------ generate_trace and FibLikeAir

\* The largest num_steps and num_col generate_trace is called with.
MaxSteps == 8
MaxCols == 5

\* The two crates with a copy of generate_trace and FibLikeAir.
Crates == {"p3", "wasm-p3-proof-gen"}

\* Val, the field of the trace: Goldilocks, stood for by a small and by a
\* 31-bit prime modulus.
GenModuli == {FeltModulus, EvalModulus}

\* usize::is_power_of_two: exactly one bit set.
RECURSIVE CountOnes(_)
CountOnes(n) == IF n = 0 THEN 0 ELSE (n % 2) + CountOnes(n \div 2)
IsPowerOfTwo(n) == CountOnes(n) = 1

\* Val::exp_u64(8), by squaring.
ExpU64Of8(x) ==
    LET x2 == MulMod(F, x, x)
        x4 == MulMod(F, x2, x2)
    IN  MulMod(F, x4, x4)

\* `for i in first..last { sum += row[i] }` (0-based, last excluded).
RECURSIVE SumCols(_, _, _, _)
SumCols(row, i, last, sum) ==
    IF i >= last THEN sum ELSE SumCols(row, i + 1, last, AddMod(F, sum, row[i + 1]))

\* x_1^8 + x_2 + ... + x_{num_col-1} of a row.
RowSum(row, n) == SumCols(row, 1, n - 1, ExpU64Of8(row[1]))

\* The first row before its last column is set: all ones in crate p3,
\* 1, 2, .., num_col in crate wasm-p3-proof-gen.
InitialRow(c, n) ==
    IF c = "p3"
    THEN [i \in 1..n |-> FOne]
    ELSE [i \in 1..n |-> FromU64(F, AsU32(i))]

FirstRow(c, n) == [InitialRow(c, n) EXCEPT ![n] = RowSum(InitialRow(c, n), n)]

\* Mutant of CarriedColumn: the next row starts from the current row's
\* first column.
CarriedFirst(n) == 0

\* The column of the current row that the next row starts from.
CarriedColumn(n) == n - 1

\* The next row: x_1 is the carried column, the middle columns are one, the
\* last column is the row sum.
NextRowBeforeSum(cur, n) ==
    [i \in 1..n |->
        IF i = 1 THEN cur[CarriedColumn(n) + 1]
        ELSE IF i - 1 < n - 1 THEN FOne
        ELSE FZero]

NextRowOf(cur, n) ==
    [NextRowBeforeSum(cur, n) EXCEPT ![n] = RowSum(NextRowBeforeSum(cur, n), n)]

\* `for step in 0..num_steps`: push the row, compute the next one unless
\* this is the last step.
RECURSIVE GenLoop(_, _, _, _, _)
GenLoop(row, step, steps, n, values) ==
    IF step >= steps
    THEN values
    ELSE GenLoop(IF step < steps - 1 THEN NextRowOf(row, n) ELSE row,
                 step + 1, steps, n, values \o row)

GenPanicked == [tag |-> "Panic", values |-> <<>>, width |-> 0, final_result |-> 0]

\* generate_trace(num_steps, num_col)
GenerateTrace(c, steps, n) ==
    IF ~IsPowerOfTwo(steps) \/ ~(n >= 2)
    THEN GenPanicked
    ELSE LET values == GenLoop(FirstRow(c, n), 0, steps, n, <<>>)
         IN  IF Len(values) % n # 0
             THEN GenPanicked
             ELSE [tag |-> "Ok", values |-> values, width |-> n,
                   final_result |-> values[Len(values) - n + 1]]

GenerateTraceCall ==
    /\ gen_ret' = GenerateTrace(crate, num_steps, num_col)
    /\ UNCHANGED <<miden_trace, F, conv_vars, air_vars, entry_vars, conc_vars, eval_vars,
                   crate, num_steps, num_col>>

\* Row r (0-based) of the returned matrix, and its height.
GenRow(ret, r) == SubSeq(ret.values, r * ret.width + 1, (r + 1) * ret.width)
GenHeight(ret) == IF ret.width = 0 THEN 0 ELSE Len(ret.values) \div ret.width

\* x1 * x1 * x1 * x1 * x1 * x1 * x1 * x1, as eval multiplies it out.
RECURSIVE PowByProduct(_, _)
PowByProduct(x, k) == IF k = 1 THEN x ELSE MulMod(F, PowByProduct(x, k - 1), x)

\* FibLikeAir::eval: the sum assertion, the transition assertion and, in
\* crate p3 only, the first-row assertions on columns 0..num_col-2.
FibAsserts(c, n, local, next, first, trans) ==
    << Assertion("fib", "sum", FOne,
                 SubMod(F, SumCols(local, 1, n - 1, PowByProduct(local[1], 8)), local[n])),
       Assertion("fib", "transition", trans, EqExpr(next[1], local[n])) >>
    \o (IF c = "p3"
        THEN [i \in 1..(n - 1) |->
                 Assertion("fib", "first_row", first, EqExpr(local[i], FOne))]
        ELSE <<>>)

\* eval on the window at row r of the generated trace: that row and the one
\* after it (cyclically), first-row selector on row 0, transition selector
\* off on the last row.
FibEval ==
    /\ gen_ret.tag = "Ok"
    /\ \E r \in 0..(GenHeight(gen_ret) - 1) :
          LET local == GenRow(gen_ret, r)
              next == GenRow(gen_ret, (r + 1) % GenHeight(gen_ret))
              first == IF r = 0 THEN 1 ELSE 0
              trans == IF r < GenHeight(gen_ret) - 1 THEN 1 ELSE 0
          IN  /\ current_row' = local
              /\ next_row' = next
              /\ is_first_row' = first
              /\ is_transition' = trans
              /\ asserts' = FibAsserts(crate, gen_ret.width, local, next, first, trans)
    /\ eval_pc' = "done"
    /\ UNCHANGED <<miden_trace, F, conv_vars, air_vars, entry_vars, conc_vars, gen_vars>>

InitGen ==
    /\ miden_trace = PatternTrace(0, 0)
    /\ F \in GenModuli
    /\ ConvInit
    /\ AirInit
    /\ EntryInit
    /\ ConcInit
    /\ EvalInit
    /\ crate \in Crates
    /\ num_steps \in 0..MaxSteps
    /\ num_col \in 0..MaxCols
    /\ gen_ret = NoGen

NextGen ==
    \/ GenerateTraceCall
    \/ FibEval

SpecGen == InitGen /\ [][NextGen]_vars

\* ================================================================ claims

\* The source trace's dimensions and its element at row r, column c (0-based),
\* read from the trace itself, not from convert's locals.
SrcHeight == Length(miden_trace)
SrcWidth == MainTraceWidth(miden_trace)
SrcAt(r, c) == miden_trace.columns[c + 1][r + 1]

\* A convert call has returned and no other is running.
Returned == pc = "idle" /\ result.tag # "None"

\* n is a power of two (stated without the model's bit operators).
IsPow2(n) == \E k \in 0..12 : n = 2^k

\* C1: convert returns Err(EmptyTrace) if and only if the source trace has
\* height 0 or width 0; when it does, neither the output buffer has been
\* allocated nor any source column read; and every trace with height >= 1
\* and width >= 1 yields Ok.
C1_EmptyTraceIff ==
    Returned =>
        /\ (result = Err("EmptyTrace")) <=> (SrcHeight = 0 \/ SrcWidth = 0)
        /\ result.tag = "Err" => live = {"height", "width"}
        /\ (SrcHeight >= 1 /\ SrcWidth >= 1) => result.tag = "Ok"

\* A trace with rows but no columns has been rejected.
C1_Witness ==
    /\ Returned
    /\ result = Err("EmptyTrace")
    /\ SrcHeight >= 1
    /\ SrcWidth = 0

\* C2: the matrix convert returns has next_power_of_two(h) rows and w
\* columns (padded_height * w elements); its height is a power of two and
\* at least h, its width the source's width.
C2_OutputDimensions ==
    (Returned /\ SrcHeight >= 1 /\ SrcWidth >= 1) =>
        /\ result.tag = "Ok"
        /\ MatrixHeight(result) = NextPowerOfTwo(SrcHeight)
        /\ MatrixWidth(result) = SrcWidth
        /\ Len(result.values) = NextPowerOfTwo(SrcHeight) * SrcWidth
        /\ IsPow2(MatrixHeight(result))
        /\ MatrixHeight(result) >= SrcHeight

\* A trace whose height is no power of two has been converted.
C2_Witness ==
    /\ Returned
    /\ result.tag = "Ok"
    /\ SrcHeight = 3
    /\ SrcWidth = 2
    /\ MatrixHeight(result) = 4

\* C3: after a successful conversion every element of every row with index
\* in [height, padded_height) is the zero of the target field.
C3_PaddingRowsZero ==
    (Returned /\ result.tag = "Ok") =>
        \A r \in SrcHeight..(MatrixHeight(result) - 1) :
            \A c \in 0..(SrcWidth - 1) : MatrixGet(result, r, c) = 0

\* A padded conversion of a trace that holds no zero at all.
C3_Witness ==
    /\ Returned
    /\ result.tag = "Ok"
    /\ MatrixHeight(result) > SrcHeight
    /\ SrcWidth = 2
    /\ \A r \in 0..(SrcHeight - 1) : \A c \in 0..(SrcWidth - 1) : SrcAt(r, c) # 0

\* C4: for every row r < height - 1 and column c < width the output element
\* at flat index r * width + c is F::from_u64 of the canonical integer of the
\* source element at column c, row r.
C4_Transposition ==
    (Returned /\ result.tag = "Ok") =>
        \A r \in 0..(SrcHeight - 2) : \A c \in 0..(SrcWidth - 1) :
            result.values[r * SrcWidth + c + 1] = FromU64(F, AsInt(SrcAt(r, c)))

\* A conversion with rows before the boundary row whose columns differ.
C4_Witness ==
    /\ Returned
    /\ result.tag = "Ok"
    /\ SrcHeight = 3
    /\ SrcWidth = 2
    /\ SrcAt(0, 0) # SrcAt(0, 1)
    /\ SrcAt(1, 0) # SrcAt(0, 0)

TargetCanonical(x) == x % F

\* The positions (r, c) convert copies from the source: every position of
\* the original rows except column 0 of the boundary row.
CopiedPositions ==
    { p \in (0..(SrcHeight - 1)) \X (0..(SrcWidth - 1)) :
        ~(p[1] = SrcHeight - 1 /\ p[2] = 0) }

\* The pairs <<source value, output value>> over the copied positions.
CopiedPairs ==
    { <<SrcAt(p[1], p[2]), MatrixGet(result, p[1], p[2])>> : p \in CopiedPositions }

\* C6: when the target field has the modulus of the source field, the
\* canonical integer of every copied output element equals that of its source
\* element, and two different source values never give the same output value.
C6_LosslessSameModulus ==
    (Returned /\ result.tag = "Ok" /\ F = FeltModulus) =>
        /\ \A p \in CopiedPositions :
              TargetCanonical(MatrixGet(result, p[1], p[2]))
                  = AsInt(SrcAt(p[1], p[2]))
        /\ \A a, b \in CopiedPairs : a[1] # b[1] => a[2] # b[2]

\* A same-modulus conversion whose copied elements hold both sample values.
C6_Witness ==
    /\ Returned
    /\ result.tag = "Ok"
    /\ F = FeltModulus
    /\ \E p, q \in CopiedPositions :
          /\ SrcAt(p[1], p[2]) = 0
          /\ SrcAt(q[1], q[2]) = FeltModulus - 1
          /\ MatrixGet(result, q[1], q[2]) = FeltModulus - 1

\* C7: for a trace of height h >= 1 and width w >= 1 trace_stats returns
\* original_height h, width w, padded_height next_power_of_two(h),
\* padding_rows padded_height - h and log_height log2(padded_height); its
\* padded_height is the height of the matrix convert returns; height 100 and
\* width 50 give 128, 28 and 7.
C7_StatsAgreeWithConvert ==
    (stats.tag # "None" /\ SrcHeight >= 1 /\ SrcWidth >= 1) =>
        /\ stats.tag = "Ok"
        /\ stats.original_height = SrcHeight
        /\ stats.width = SrcWidth
        /\ stats.padded_height = NextPowerOfTwo(SrcHeight)
        /\ stats.padding_rows = stats.padded_height - SrcHeight
        /\ 2^stats.log_height = stats.padded_height
        /\ result.tag = "Ok" => stats.padded_height = MatrixHeight(result)
        /\ (SrcHeight = 100 /\ SrcWidth = 50) =>
              /\ stats.padded_height = 128
              /\ stats.padding_rows = 28
              /\ stats.log_height = 7

\* The 100 x 50 trace has been converted and its statistics taken.
C7_Witness ==
    /\ stats.tag = "Ok"
    /\ result.tag = "Ok"
    /\ SrcHeight = 100
    /\ SrcWidth = 50
    /\ MatrixHeight(result) = 128

\* C8: two conversions of the same source trace to the same target field
\* return the same result, element for element, whatever the earlier call
\* left behind.
C8_Deterministic ==
    (Returned /\ prev_result.tag # "None") => result = prev_result

\* A padded trace has been converted twice.
C8_Witness ==
    /\ Returned
    /\ prev_result.tag = "Ok"
    /\ result.tag = "Ok"
    /\ SrcHeight = 3
    /\ SrcWidth = 2

\* P is the least power of two >= N: a power of two, >= N, < 2N, and N
\* itself exactly when N is a power of two.
LeastPow2(P, N) ==
    /\ IsPow2(P)
    /\ P >= N
    /\ P < 2 * N
    /\ (P = N) <=> IsPow2(N)

\* The documented paddings.
KnownPaddings ==
    { <<1, 1>>, <<10, 16>>, <<64, 64>>, <<100, 128>>, <<127, 128>>,
      <<128, 128>>, <<129, 256>>, <<200, 256>> }

\* C9: the padded height convert and trace_stats use is the least power of
\* two >= N for every original height N >= 1, equal to N (no padding rows)
\* exactly when N is a power of two; 1 -> 1, 10 -> 16, 64 -> 64, 100 -> 128,
\* 127 -> 128, 128 -> 128, 129 -> 256, 200 -> 256.
C9_LeastPowerOfTwo ==
    /\ (pc # "idle" /\ "padded_height" \in live) =>
          /\ LeastPow2(padded_height, height)
          /\ \A k \in KnownPaddings : height = k[1] => padded_height = k[2]
    /\ (stats.tag # "None" /\ SrcHeight >= 1) =>
          /\ stats.tag = "Ok"
          /\ LeastPow2(stats.padded_height, SrcHeight)
          /\ (stats.padding_rows = 0) <=> IsPow2(SrcHeight)
          /\ \A k \in KnownPaddings :
                SrcHeight = k[1] => stats.padded_height = k[2]

\* Height 129 has been padded to 256 by both operations.
C9_Witness ==
    /\ pc # "idle"
    /\ "padded_height" \in live
    /\ height = 129
    /\ padded_height = 256
    /\ stats.tag = "Ok"
    /\ stats.padded_height = 256

\* C10: aux_width() returns the stored auxiliary width when has_aux_columns
\* is true and 0 when it is false, whatever aux_width is stored; a descriptor
\* built by new() reports 8, one built by new_main_only() reports 0; and
\* BaseAir::width() returns the width captured at construction.
C10_AuxWidth ==
    /\ aux_ret.set =>
          /\ air.has_aux_columns => aux_ret.value = air.aux_width
          /\ ~air.has_aux_columns => aux_ret.value = 0
          /\ air_origin = "new" => aux_ret.value = 8
          /\ air_origin = "new_main_only" => aux_ret.value = 0
    /\ width_ret.set =>
          /\ width_ret.value = air.width
          /\ air_origin \in {"new", "new_main_only"} => width_ret.value = SrcWidth

\* aux_width() returned 0 on a descriptor that stores 8 with the flag off.
C10_Witness ==
    /\ aux_ret.set
    /\ width_ret.set
    /\ ~air.has_aux_columns
    /\ air.aux_width = 8
    /\ aux_ret.value = 0
    /\ width_ret.value = 80

\* C11: whenever convert_miden_execution succeeds, the descriptor and the
\* matrix it returns agree on the width, which is the source's main-trace
\* width.
C11_WidthAgreement ==
    (Returned /\ entry = "convert_miden_execution" /\ result.tag = "Ok") =>
        /\ air.set
        /\ BaseAirWidthOf(air) = MatrixWidth(result)
        /\ MatrixWidth(result) = SrcWidth

\* convert_miden_execution has returned a matrix and a descriptor.
C11_Witness ==
    /\ Returned
    /\ entry = "convert_miden_execution"
    /\ result.tag = "Ok"
    /\ air.set
    /\ SrcWidth = 2
    /\ SrcHeight = 3

\* C12: a wrapper called on a trace returns what TraceConverter::convert
\* returns on it, element for element; when convert fails with EmptyTrace
\* the wrappers return that error, and convert_miden_execution no descriptor.
C12_EntryPointsEquivalent ==
    /\ (Returned /\ prev_result.tag # "None" /\ entry # prev_entry)
          => result = prev_result
    /\ (Returned /\ entry # "convert" /\ IsEmptyTrace(SrcHeight, SrcWidth)) =>
          /\ result = Err("EmptyTrace")
          /\ ~air.set

\* convert_miden_execution has returned the error convert returned before it.
C12_Witness ==
    /\ Returned
    /\ prev_entry = "convert"
    /\ entry = "convert_miden_execution"
    /\ prev_result = Err("EmptyTrace")
    /\ result = Err("EmptyTrace")
    /\ ~air.set

\* ------------------------------------------------------- claims on eval

\* The five segment methods have returned (eval is in, or past, the
\* boundary method).
SegmentsReturned == eval_pc \in {"boundary", "done", "panicked"}

\* The assertions a segment has handed to the builder.
Emitted(seg) == { i \in 1..Len(asserts) : asserts[i].seg = seg }
EmittedNamed(seg, id) == { i \in Emitted(seg) : asserts[i].id = id }

\* The builder's reading of an assertion: the filtered expression is zero.
Holds(a) == MulMod(F, a.gate, a.expr) = 0
SegmentHolds(seg) == \A i \in Emitted(seg) : Holds(asserts[i])

Segments == {"system", "decoder", "stack", "range_check", "chiplets"}

\* C13: eval never fails at run time, whatever the descriptor width and the
\* rows: it reaches no panic and no out-of-range access.
C13_NeverFails == eval_pc # "panicked"

\* C14 as claimed: no system assertion when W < 8, no decoder assertion when
\* W < 32, no stack assertion when W < 51, no range-check assertion when
\* W < 53, no chiplet assertion when W < 73; all five segments emit when
\* W >= 73.
C14_SegmentCoverage ==
    SegmentsReturned =>
        /\ air.width < 8 => Emitted("system") = {}
        /\ air.width < 32 => Emitted("decoder") = {}
        /\ air.width < 51 => Emitted("stack") = {}
        /\ air.width < 53 => Emitted("range_check") = {}
        /\ air.width < 73 => Emitted("chiplets") = {}
        /\ air.width >= 73 => \A seg \in Segments : Emitted(seg) # {}

\* C14 amended: a system assertion is emitted exactly when the width
\* contains its column (the two clock assertions from W >= 1, the frame
\* pointer from W >= 2, the in-syscall flag from W >= 4), so the system
\* segment is silent only at W = 0; the other four segments are silent
\* below 32, 51, 53 and 73 columns, and all five emit when W >= 73.
C14_SegmentCoverageByColumn ==
    SegmentsReturned =>
        /\ EmittedNamed("system", "clk_increment") # {} <=> air.width >= 1
        /\ EmittedNamed("system", "clk_first_row") # {} <=> air.width >= 1
        /\ EmittedNamed("system", "fmp_first_row") # {} <=> air.width >= 2
        /\ EmittedNamed("system", "in_syscall_bool") # {} <=> air.width >= 4
        /\ air.width = 0 => Emitted("system") = {}
        /\ air.width < 32 => Emitted("decoder") = {}
        /\ air.width < 51 => Emitted("stack") = {}
        /\ air.width < 53 => Emitted("range_check") = {}
        /\ air.width < 73 => Emitted("chiplets") = {}
        /\ air.width >= 73 => \A seg \in Segments : Emitted(seg) # {}

\* eval has run on a descriptor of 7 columns: the system segment has
\* emitted, the decoder has not.
C14_Witness ==
    /\ eval_pc = "done"
    /\ air.width = 7
    /\ Emitted("system") # {}
    /\ Emitted("decoder") = {}

\* The system method has returned.
SystemReturned == eval_pc \in {"decoder", "stack", "range_check", "chiplets"} \/ SegmentsReturned
DecoderReturned == eval_pc \in {"stack", "range_check", "chiplets"} \/ SegmentsReturned
StackReturned == eval_pc \in {"range_check", "chiplets"} \/ SegmentsReturned

IsBool(x) == x \in {0, 1}

\* C18: the system segment's assertions hold exactly when, for the columns
\* the width contains, (a) on a transition next[0] = current[0] + 1, (b) on
\* the first row current[0] = 0 and current[1] = 2^30, and (c) current[3]
\* is 0 or 1; the segment reads, and so constrains, no other column.
C18_SystemSegment ==
    SystemReturned =>
        /\ SegmentHolds("system") <=>
              /\ (air.width > 0 /\ is_transition = 1) =>
                    Nxt(0) = (Cur(0) + 1) % F
              /\ (air.width > 0 /\ is_first_row = 1) => Cur(0) = 0
              /\ (air.width > 1 /\ is_first_row = 1) => Cur(1) = 1073741824 % F
              /\ air.width > 3 => IsBool(Cur(3))
        /\ SystemReads(air.width).cur \subseteq {0, 1, 3}
        /\ SystemReads(air.width).nxt \subseteq {0}

\* eval has run on the first row of an 8-column trace whose context column
\* holds 2: the system assertions hold.
C18_Witness ==
    /\ eval_pc = "done"
    /\ air.width = 8
    /\ is_first_row = 1
    /\ is_transition = 1
    /\ Cur(2) = 2
    /\ Cur(1) = 1073741824
    /\ SegmentHolds("system")

\* C19: at W >= 32 the decoder segment's assertions hold exactly when
\* columns 9..15 and 21..24 of the current row are 0 or 1 and, on a
\* transition, the group count (column 25) stays or decreases by one:
\* diff * (diff - 1) = 0 with diff = current - next.
C19_DecoderSegment ==
    (DecoderReturned /\ air.width >= 32) =>
        /\ Emitted("decoder") # {}
        /\ SegmentHolds("decoder") <=>
              /\ \A c \in (9..15) \cup (21..24) : IsBool(Cur(c))
              /\ is_transition = 1 =>
                    \/ Cur(25) = Nxt(25)
                    \/ Cur(25) = (Nxt(25) + 1) % F

\* eval has run on a transition where the group count goes from 0 to the
\* largest element, a decrease by one in the field.
C19_Witness ==
    /\ eval_pc = "done"
    /\ air.width = 32
    /\ is_transition = 1
    /\ Cur(25) = 0
    /\ Nxt(25) = F - 1
    /\ SegmentHolds("decoder")

\* C20: at W >= 51 the stack segment asserts, on every transition and under
\* no other condition, next[32 + i] = current[32 + i] for each of the 16
\* slots i in 0..15.
C20_StackSlotsStable ==
    (StackReturned /\ air.width >= 51) =>
        /\ \A i \in EmittedNamed("stack", "slot") : asserts[i].gate = is_transition
        /\ (\A i \in EmittedNamed("stack", "slot") : Holds(asserts[i])) <=>
              (is_transition = 1 => \A i \in 0..15 : Nxt(32 + i) = Cur(32 + i))

\* eval has run on a transition where the last slot changes: a slot
\* assertion fails.
C20_Witness ==
    /\ eval_pc = "done"
    /\ air.width = 51
    /\ is_transition = 1
    /\ Cur(47) = 0
    /\ Nxt(47) = 1
    /\ \E i \in EmittedNamed("stack", "slot") : ~Holds(asserts[i])

\* C15: no step of convert and no call of trace_stats changes the source
\* trace: its elements, height and width stay what they were; the boundary
\* overwrite of column 0 goes to the output only.
C15_SourceUnchanged == [][miden_trace' = miden_trace]_vars

\* convert and trace_stats have both returned on a three-row trace whose
\* last row still holds the largest element in column 0, where the output
\* holds the row index.
C15_Witness ==
    /\ Returned
    /\ result.tag = "Ok"
    /\ stats.tag = "Ok"
    /\ SrcHeight = 3
    /\ SrcAt(2, 0) = FeltModulus - 1
    /\ MatrixGet(result, 2, 0) = FromU64(F, 2)

\* What convert returns on a trace when it runs alone: the error on an empty
\* trace, else the padded row-major copy with the boundary value.
AloneResult(trace) ==
    LET h == trace.length
        w == trace.width
        at(r, c) ==
            IF r >= h THEN 0
            ELSE IF r = h - 1 /\ c = 0 THEN ((r % U32Range) % FeltModulus) % F
            ELSE (trace.columns[c + 1][r + 1] % FeltModulus) % F
    IN  IF h = 0 \/ w = 0
        THEN Err("EmptyTrace")
        ELSE [tag |-> "Ok", err |-> "",
              values |-> [i \in 1..(NextPowerOfTwo(h) * w) |->
                             at((i - 1) \div w, (i - 1) % w)],
              width |-> w]

\* C16: whatever the interleaving of the steps of two convert calls on two
\* source traces, each call returns the matrix (or the error) it returns
\* when run alone.
C16_NoInterference ==
    /\ Returned => result = AloneResult(miden_trace)
    /\ (other.started /\ other.pc = "idle" /\ other.result.tag # "None") =>
          other.result = AloneResult(other.miden_trace)

\* Both calls have returned, on different traces of different heights, the
\* suspended one having been in its row loop while the other one ran.
C16_Witness ==
    /\ Returned
    /\ other.started
    /\ other.pc = "idle"
    /\ result.tag = "Ok"
    /\ other.result.tag = "Ok"
    /\ Length(miden_trace) = 3
    /\ Length(other.miden_trace) = 2
    /\ result # other.result

\* Element (r, c) of the matrix generate_trace returned (0-based).
GenAt(r, c) == gen_ret.values[r * num_col + c + 1]

\* x^8 in the field, by repeated multiplication.
Pow8(x) == MulMod(F, MulMod(F, MulMod(F, x, x), MulMod(F, x, x)),
                     MulMod(F, MulMod(F, x, x), MulMod(F, x, x)))

\* x_2 + ... + x_{num_col-1} of row r.
RECURSIVE MiddleSum(_, _)
MiddleSum(r, c) == IF c < 1 THEN 0 ELSE AddMod(F, MiddleSum(r, c - 1), GenAt(r, c))

GenReturned == gen_ret.tag # "None"

\* C17: for a power-of-two num_steps and num_col >= 2, generate_trace
\* returns a matrix of height num_steps and width num_col whose every row
\* satisfies x_1^8 + x_2 + ... + x_{num_col-1} = x_{num_col}, whose adjacent
\* rows satisfy next[0] = current[num_col-1], with final_result column 0 of
\* the last row; every assertion FibLikeAir::eval emits on it holds.
C17_GeneratedTraceSatisfiesAir ==
    (GenReturned /\ (\E k \in 0..12 : num_steps = 2^k) /\ num_col >= 2) =>
        /\ gen_ret.tag = "Ok"
        /\ gen_ret.width = num_col
        /\ Len(gen_ret.values) = num_steps * num_col
        /\ \A r \in 0..(num_steps - 1) :
              AddMod(F, Pow8(GenAt(r, 0)), MiddleSum(r, num_col - 2))
                  = GenAt(r, num_col - 1)
        /\ \A r \in 0..(num_steps - 2) : GenAt(r + 1, 0) = GenAt(r, num_col - 1)
        /\ gen_ret.final_result = GenAt(num_steps - 1, 0)
        /\ eval_pc = "done" => \A i \in 1..Len(asserts) : Holds(asserts[i])

\* eval has run on the second row of the 8 x 3 trace of the crates' tests,
\* where x_1 = 2, x_2 = 1 and x_3 = 2^8 + 1 in the field.
C17_Witness ==
    /\ gen_ret.tag = "Ok"
    /\ num_steps = 8
    /\ num_col = 3
    /\ crate = "p3"
    /\ eval_pc = "done"
    /\ current_row = <<2, 1, 257 % F>>
    /\ is_transition = 1
    /\ Len(asserts) = 4

RangeCheckReturned == eval_pc = "chiplets" \/ SegmentsReturned

\* C21 as claimed: at W >= 51, on a transition, the assertion on the depth
\* column 48 holds for a depth of 16 and for every larger depth, and fails
\* only for a depth of zero.
C21_DepthAccepted ==
    (StackReturned /\ air.width >= 51 /\ is_transition = 1) =>
        /\ EmittedNamed("stack", "depth") # {}
        /\ \A i \in EmittedNamed("stack", "depth") :
              Holds(asserts[i]) <=> Cur(48) # 0

\* C22 as claimed: at W >= 53 the assertion on the value column 51 holds
\* for every value below 65536 and fails for every value from 65536 on.
C22_SixteenBitRange ==
    (RangeCheckReturned /\ air.width >= 53) =>
        /\ EmittedNamed("range_check", "value") # {}
        /\ \A i \in EmittedNamed("range_check", "value") :
              Holds(asserts[i]) <=> Cur(51) < 65536

\* The assertion of the given name that the chiplet segment emitted.
ChipletAssertion(id) ==
    asserts[CHOOSE i \in EmittedNamed("chiplets", id) : TRUE]

\* C23: at W >= 73 the six selector columns 53..58 are asserted boolean on
\* every row; with boolean selectors the memory assertion
\* next[63] = current[63] is in force exactly when (sel0, sel1, sel2) =
\* (1, 1, 0), the bitwise assertion current[68] = 0 exactly when
\* (sel0, sel1) = (1, 0), both are vacuous otherwise, and the two gates are
\* never active together.
C23_ChipletGates ==
    (SegmentsReturned /\ air.width >= 73) =>
        /\ \A i \in EmittedNamed("chiplets", "selector_bool") : asserts[i].gate = 1
        /\ (\A i \in EmittedNamed("chiplets", "selector_bool") : Holds(asserts[i]))
              <=> \A c \in 53..58 : IsBool(Cur(c))
        /\ EmittedNamed("chiplets", "memory") # {}
        /\ EmittedNamed("chiplets", "bitwise") # {}
        /\ (IsBool(Cur(53)) /\ IsBool(Cur(54)) /\ IsBool(Cur(55))) =>
              LET memory_on == Cur(53) = 1 /\ Cur(54) = 1 /\ Cur(55) = 0
                  bitwise_on == Cur(53) = 1 /\ Cur(54) = 0
              IN  /\ ChipletAssertion("memory").gate # 0 <=> memory_on
                  /\ ChipletAssertion("bitwise").gate # 0 <=> bitwise_on
                  /\ Holds(ChipletAssertion("memory"))
                        <=> (memory_on => Nxt(63) = Cur(63))
                  /\ Holds(ChipletAssertion("bitwise"))
                        <=> (bitwise_on => Cur(68) = 0)
                  /\ ~(ChipletAssertion("memory").gate # 0
                         /\ ChipletAssertion("bitwise").gate # 0)

\* eval has run on a row with selectors (1, 1, 0) whose memory value
\* changes: the memory assertion fails, the bitwise one is vacuous although
\* the bitwise output is one.
C23_Witness ==
    /\ eval_pc = "done"
    /\ air.width = 73
    /\ Cur(53) = 1 /\ Cur(54) = 1 /\ Cur(55) = 0
    /\ Nxt(63) # Cur(63)
    /\ Cur(68) = 1
    /\ ~Holds(ChipletAssertion("memory"))
    /\ Holds(ChipletAssertion("bitwise"))

\* C24: eval asserts clock (column 0) = 0 and, when W > 2, context
\* (column 2) = 0, both filtered by the first-row selector: they hold exactly
\* when the row is not the first one or the columns are zero.
C24_BoundaryFirstRowOnly ==
    eval_pc = "done" =>
        /\ EmittedNamed("boundary", "clk_first_row") # {}
        /\ EmittedNamed("boundary", "ctx_first_row") # {} <=> air.width > 2
        /\ \A i \in Emitted("boundary") : asserts[i].gate = is_first_row
        /\ SegmentHolds("boundary") <=>
              (is_first_row = 1 => (Cur(0) = 0 /\ (air.width > 2 => Cur(2) = 0)))

\* eval has run on a row that is not the first one and whose context
\* column holds 2: the boundary assertions hold.
C24_Witness ==
    /\ eval_pc = "done"
    /\ air.width = 3
    /\ is_first_row = 0
    /\ Cur(2) = 2
    /\ SegmentHolds("boundary")

\* The column range of each method of eval.
SegmentRange(seg) ==
    CASE seg = "system" -> 0..7
      [] seg = "boundary" -> 0..7
      [] seg = "decoder" -> 8..31
      [] seg = "stack" -> 32..50
      [] seg = "range_check" -> 51..52
      [] seg = "chiplets" -> 53..72

\* The columns a method reads, of either row, at width w.
ReadsOf(seg, w) ==
    LET reads == CASE seg = "system" -> SystemReads(w)
                   [] seg = "boundary" -> BoundaryReads(w)
                   [] seg = "decoder" -> DecoderReads(w)
                   [] seg = "stack" -> StackReads(w)
                   [] seg = "range_check" -> RangeCheckReads(w)
                   [] seg = "chiplets" -> ChipletReads(w)
    IN  reads.cur \cup reads.nxt

\* C26: for every width W >= 1 eval reads no column >= W (it does not
\* panic), and each method reads only columns of its own range: system and
\* boundary 0..7, decoder 8..31, stack 32..50, range-check 51..52, chiplets
\* 53..72; the five ranges are pairwise disjoint.  The reads are those of
\* the descriptor under evaluation and, before eval is entered, those of
\* every width up to MaxAirWidth.
C26_ReadsInRange ==
    (air.set /\ air.width >= 1) =>
        /\ eval_pc # "panicked"
        /\ \A seg \in Segments \cup {"boundary"} :
              /\ \A c \in ReadsOf(seg, air.width) : c < air.width
              /\ ReadsOf(seg, air.width) \subseteq SegmentRange(seg)
        /\ eval_pc = "idle" =>
              \A w \in 1..MaxAirWidth : \A seg \in Segments \cup {"boundary"} :
                 /\ \A c \in ReadsOf(seg, w) : c < w
                 /\ ReadsOf(seg, w) \subseteq SegmentRange(seg)
        /\ \A s1 \in Segments : \A s2 \in Segments \ {s1} :
              SegmentRange(s1) \cap SegmentRange(s2) = {}

\* eval has run to its end on a descriptor of 73 columns, all five segments
\* having read their columns.
C26_Witness ==
    /\ eval_pc = "done"
    /\ air.width = 73
    /\ \A seg \in Segments : Emitted(seg) # {}
    /\ 68 \in ReadsOf("chiplets", air.width)

\* C30 as claimed: on a transition between two all-zero padding rows, not
\* the first row, every assertion eval emits holds.
C30_PaddingAccepted ==
    (eval_pc = "done" /\ <<current_row, next_row>> = PaddingWindow(air.width)
        /\ is_first_row = 0 /\ is_transition = 1) =>
        \A i \in 1..Len(asserts) : Holds(asserts[i])

\* C25 as claimed: for a source trace whose column 0 holds the row index in
\* every row before the last, every pair of adjacent rows of the matrix
\* convert returns satisfies trace[i][0] = trace[i-1][0] + 1.
C25_IncrementSatisfied ==
    (Returned /\ result.tag = "Ok"
        /\ \A r \in 0..(SrcHeight - 2) : SrcAt(r, 0) = r) =>
        \A i \in 1..(MatrixHeight(result) - 1) :
            MatrixGet(result, i, 0) = (MatrixGet(result, i - 1, 0) + 1) % F

\* Both calls have returned.
BothReturned ==
    /\ Returned
    /\ other.started
    /\ other.pc = "idle"
    /\ other.result.tag # "None"

\* The two source traces have the same dimensions and the same elements,
\* column 0 of the last row aside.
AgreeButBoundary(t1, t2) ==
    /\ t1.length = t2.length
    /\ t1.width = t2.width
    /\ \A c \in 1..t1.width : \A r \in 1..t1.length :
          (r = t1.length /\ c = 1) \/ t1.columns[c][r] = t2.columns[c][r]

\* C27: two source traces of the same dimensions that differ at most in
\* column 0 of the last row convert to the same matrix; traces that differ
\* in any other element convert, to the field of the source modulus, to
\* different matrices.
C27_BoundaryValueIgnored ==
    (BothReturned /\ Length(miden_trace) = Length(other.miden_trace)
        /\ MainTraceWidth(miden_trace) = MainTraceWidth(other.miden_trace)) =>
        /\ AgreeButBoundary(miden_trace, other.miden_trace) => result = other.result
        /\ (F = FeltModulus /\ ~AgreeButBoundary(miden_trace, other.miden_trace))
              => result # other.result

\* Two calls have returned the same matrix for two three-row traces that
\* differ in column 0 of the last row.
C27_Witness ==
    /\ BothReturned
    /\ Length(miden_trace) = 3
    /\ miden_trace # other.miden_trace
    /\ AgreeButBoundary(miden_trace, other.miden_trace)
    /\ result.tag = "Ok"
    /\ result = other.result

\* C28: trace_stats returns a record for every trace, the empty ones
\* included: height 0 gives original_height 0, padded_height 1,
\* padding_rows 1 and log_height 0 where convert returns EmptyTrace;
\* padding_rows is padded_height - original_height and never negative.
C28_StatsOnEveryTrace ==
    stats.tag # "None" =>
        /\ stats.tag = "Ok"
        /\ stats.padding_rows = stats.padded_height - stats.original_height
        /\ stats.padding_rows >= 0
        /\ SrcHeight = 0 =>
              /\ stats.original_height = 0
              /\ stats.padded_height = 1
              /\ stats.padding_rows = 1
              /\ stats.log_height = 0
              /\ Returned => result = Err("EmptyTrace")

\* trace_stats and convert have both been called on a trace of height 0.
C28_Witness ==
    /\ stats.tag = "Ok"
    /\ SrcHeight = 0
    /\ stats.padded_height = 1
    /\ Returned
    /\ result = Err("EmptyTrace")

\* C29: convert returns a matrix or EmptyTrace, no other error; a copied
\* source element whose canonical integer is not below the target modulus
\* is stored reduced modulo it.
C29_NoFieldConversionError ==
    Returned =>
        /\ result.tag \in {"Ok", "Err"}
        /\ result.tag = "Err" => result.err = "EmptyTrace"
        /\ result.tag = "Ok" =>
              \A p \in CopiedPositions :
                  AsInt(SrcAt(p[1], p[2])) >= F =>
                      MatrixGet(result, p[1], p[2]) = AsInt(SrcAt(p[1], p[2])) % F

\* A trace holding the largest source element has been converted to the
\* small field: the element is stored as 256 mod 5.
C29_Witness ==
    /\ Returned
    /\ result.tag = "Ok"
    /\ F = SmallModulus
    /\ SrcHeight = 2
    /\ SrcAt(0, 0) = FeltModulus - 1
    /\ MatrixGet(result, 0, 0) = (FeltModulus - 1) % SmallModulus

====
